---------------------------- MODULE Spec2Model ----------------------------
(***************************************************************************)
(* avapi.py: a command-line client for the Alpha Vantage API.              *)
(*                                                                         *)
(* Every invocation of the program is one process running one command      *)
(* handler (setkey, stock, crypto, exrate).  The only state that outlives  *)
(* a process is the credential file 'avapi_key.json'.  What a process did  *)
(* (credential reads, URLs fetched, text echoed, files written, exit       *)
(* status) is recorded in the variables below until the next process       *)
(* starts.                                                                 *)
(*                                                                         *)
(* Text is modelled as a sequence of tokens: a key is a sequence of        *)
(* characters, a URL a sequence of query parameters, a file name the       *)
(* sequence of the pieces its f-string joins.                              *)
(***************************************************************************)
EXTENDS Integers, Sequences, FiniteSets, TLC

VARIABLES
    phase,      \* "idle": no process is running; "exited": a process has ended
    keyFile,    \* avapi_key.json: [exists, text]
    lastSet,    \* history: the key given to the most recent setkey, if any
    args,       \* the command line (and what the provider served) of the last process
    keyCalls,   \* what each call of read_key returned in the last process
    fetched,    \* the URLs the last process requested, in order
    display,    \* what the last process printed, in order
    written,    \* the export files the last process wrote, in order
    raised,     \* the exception that ended the last process, "" if none
    exit        \* the exit status of the last process

vars == <<phase, keyFile, lastSet, args, keyCalls, fetched, display, written, raised, exit>>

-----------------------------------------------------------------------------
(* Bounds of the model *)

\* longest API key handed to setkey
MaxKeyLen == 2
\* most records in one provider response
MaxRows == 3
\* largest value of the -n option
MaxLimit == 3

\* the characters of a key: a plain one and the two that JSON escapes
KeyChars == {"a", "\"", "\\"}
\* the records a provider response is made of
RecordIds == {"r1", "r2"}

RECURSIVE SeqsUpTo(_, _)
SeqsUpTo(S, n) ==
    IF n = 0 THEN {<<>>}
    ELSE LET shorter == SeqsUpTo(S, n - 1)
         IN  shorter \cup {<<x>> \o q : x \in S, q \in {t \in shorter : Len(t) = n - 1}}

Keys      == SeqsUpTo(KeyChars, MaxKeyLen)
RowSeqs   == SeqsUpTo(RecordIds, MaxRows)
Functions == {"intraday", "daily", "weekly", "monthly", "global", "rating", "bogus"}
Symbols   == {"TSLA", "BTC"}
Intervals == {"30min", "5min", "7min"}
Limits    == (-1)..MaxLimit
Dates     == {"2021-02-03", "2021-02-04"}
\* what the provider may answer: nothing (the transport fails), a body that
\* does not parse, or a body holding records
Failures      == [status : {"transport", "malformed"}, rows : {<<>>}]
\* a CSV body: any number of rows
CsvResponses  == [status : {"ok"}, rows : RowSeqs] \cup Failures
\* a JSON body: one object under the field the handler reads
JsonResponses == [status : {"ok"}, rows : {<<r>> : r \in RecordIds}] \cup Failures

-----------------------------------------------------------------------------
(* Module-level tables of avapi.py *)

STOCK_FUNC_LIST ==
    [intraday |-> "TIME_SERIES_INTRADAY",
     daily    |-> "TIME_SERIES_DAILY",
     weekly   |-> "TIME_SERIES_WEEKLY",
     monthly  |-> "TIME_SERIES_MONTHLY",
     global   |-> "GLOBAL_QUOTE"]

CRYPTO_FUNC_LIST ==
    [rating  |-> "CRYPTO_RATING",
     daily   |-> "DIGITAL_CURRENCY_DAILY",
     weekly  |-> "DIGITAL_CURRENCY_WEEKLY",
     monthly |-> "DIGITAL_CURRENCY_MONTHLY"]

INTERVAL_LIST == {"1min", "5min", "15min", "30min", "60min"}

\* one query parameter of a URL
Param(n, v) == [name |-> n, value |-> v]

\* BASE.format(fn, sym, key)
BASE(fn, sym, key) ==
    << Param("function", <<fn>>), Param("symbol", <<sym>>),
       Param("apikey", key), Param("datatype", <<"csv">>) >>

-----------------------------------------------------------------------------
(* The credential file: json.dump and json.load of {"key": k} *)

RECURSIVE EscapeNoBackslash(_)
EscapeNoBackslash(k) ==
    IF k = <<>> THEN <<>>
    ELSE (IF Head(k) = "\"" THEN <<"\\", Head(k)>> ELSE <<Head(k)>>)
             \o EscapeNoBackslash(Tail(k))

\* the body of a JSON string literal: quote and backslash are escaped
RECURSIVE Escape(_)
Escape(k) ==
    IF k = <<>> THEN <<>>
    ELSE (IF Head(k) \in {"\"", "\\"} THEN <<"\\", Head(k)>> ELSE <<Head(k)>>)
             \o Escape(Tail(k))

JsonPrefix == <<"{", "\"", "k", "e", "y", "\"", ":", " ", "\"">>
JsonSuffix == <<"\"", "}">>

\* json.dump({"key": k}, f): the text written
json_dump(k) == JsonPrefix \o Escape(k) \o JsonSuffix

\* the string a JSON string body denotes; not ok when the body holds an
\* unescaped quote or a dangling or unknown escape
RECURSIVE Unescape(_)
Unescape(b) ==
    IF b = <<>> THEN [ok |-> TRUE, val |-> <<>>]
    ELSE IF Head(b) = "\"" THEN [ok |-> FALSE, val |-> <<>>]
    ELSE IF Head(b) = "\\"
         THEN IF Len(b) < 2 \/ b[2] \notin {"\"", "\\"}
              THEN [ok |-> FALSE, val |-> <<>>]
              ELSE LET r == Unescape(SubSeq(b, 3, Len(b)))
                   IN  [ok |-> r.ok, val |-> IF r.ok THEN <<b[2]>> \o r.val ELSE <<>>]
    ELSE LET r == Unescape(Tail(b))
         IN  [ok |-> r.ok, val |-> IF r.ok THEN <<Head(b)>> \o r.val ELSE <<>>]

\* json.load(f): the object read, for the texts '{}' and '{"key": "..."}';
\* anything else is a decode error
json_load(text) ==
    LET np == Len(JsonPrefix)
        ns == Len(JsonSuffix)
        n  == Len(text)
    IN  IF text = <<"{", "}">>
        THEN [ok |-> TRUE, hasKey |-> FALSE, key |-> <<>>]
        ELSE IF n >= np + ns /\ SubSeq(text, 1, np) = JsonPrefix
                  /\ SubSeq(text, n - ns + 1, n) = JsonSuffix
        THEN LET u == Unescape(SubSeq(text, np + 1, n - ns))
             IN  [ok |-> u.ok, hasKey |-> u.ok, key |-> u.val]
        ELSE [ok |-> FALSE, hasKey |-> FALSE, key |-> <<>>]

\* a line of text printed by the process, with the except clause (if any)
\* that printed it
Text(err, toks) == [kind |-> "text", error |-> err, text |-> toks, rows |-> <<>>]
\* a data frame printed by the process
Frame(df) == [kind |-> "frame", error |-> "", text |-> <<>>, rows |-> df]

\* read_key(): the value returned (none = Python's None), what it printed,
\* and the exception that escaped it
read_key(file) ==
    IF ~file.exists
    THEN [raised |-> "", none |-> TRUE, val |-> <<>>,
          out |-> <<Text("avapiJsonFileNotFoundError",
                         <<"Error: 'avapi_key.json' file found. Try running 'setkey'.">>)>>]
    ELSE LET j == json_load(file.text)
         IN  IF ~j.ok
             THEN [raised |-> "JSONDecodeError", none |-> TRUE, val |-> <<>>, out |-> <<>>]
             ELSE IF ~j.hasKey \/ Len(j.key) = 0
             THEN [raised |-> "", none |-> TRUE, val |-> <<>>,
                   out |-> <<Text("avapiJsonEmptyError",
                                  <<"Error: 'avapi_key.json' does not contain an API Key. Try running 'setkey'.">>)>>]
             ELSE [raised |-> "", none |-> FALSE, val |-> j.key, out |-> <<>>]

\* the text Python formats a read_key() result to inside a URL
Str(rk) == IF rk.none THEN <<"None">> ELSE rk.val


-----------------------------------------------------------------------------
(* Fetching and truncating *)

Min(a, b) == IF a < b THEN a ELSE b
Max(a, b) == IF a > b THEN a ELSE b

\* DataFrame.head(n): the first n rows; for negative n all but the last -n
DfHead(rows, n) ==
    SubSeq(rows, 1, IF n >= 0 THEN Min(n, Len(rows)) ELSE Max(0, Len(rows) + n))

\* DataFrame.tail(n): the last n rows; for negative n all but the first -n
DfTail(rows, n) ==
    SubSeq(rows, (IF n >= 0 THEN Max(0, Len(rows) - n) ELSE Min(Len(rows), -n)) + 1,
           Len(rows))

get_pandas_df_tail(rows, n) == IF n # 0 THEN DfTail(rows, n) ELSE rows

\* get_pandas_df(url, n), given the rows pd.read_csv(url) parsed
get_pandas_df(rows, n) == IF n # 0 THEN DfHead(rows, n) ELSE rows

\* pd.json_normalize(data[field]): the frame of the object(s) under the field
json_normalize(objs) == objs

\* the exception urlopen / read_csv / json.loads raises on a response
FetchError(resp) ==
    IF resp.status = "transport" THEN "URLError"
    ELSE IF resp.status = "malformed" THEN "ParseError"
    ELSE ""

\* what one run of a handler did
Outcome(kc, fe, di, wr, ra) ==
    [keyCalls |-> kc, fetched |-> fe, display |-> di, written |-> wr, raised |-> ra]

\* the exit status click's standalone main() ends the process with
ExitStatus(ra) == IF ra = "" THEN 0 ELSE 1

-----------------------------------------------------------------------------
(* stock *)

stock_error_no_echo(function) ==
    Text("invalidFunctionError", <<"Error: Invalid function argument">>)

\* the message of stock's 'except invalidFunctionError' clause
stock_error(function) ==
    Text("invalidFunctionError", <<"Error: Invalid function argument:'", function, "'">>)

\* the URL stock builds for a function of STOCK_FUNC_LIST
stock_url(function, s, i, key) ==
    IF function = "rating"
    THEN BASE(STOCK_FUNC_LIST["intraday"], s, key) \o <<Param("interval", <<i>>)>>
    ELSE BASE(STOCK_FUNC_LIST[function], s, key)

\* filename = f"{date.today()}_{function}_{s}_.csv"
stock_filename(today, function, s) ==
    <<today, "_", function, "_", s, "_", ".csv">>

\* the body of stock(function, s, i, n, save)
stock_run(function, s, i, n, save, today, resp, file) ==
    IF function \notin DOMAIN STOCK_FUNC_LIST
    THEN Outcome(<<>>, <<>>, <<stock_error(function)>>, <<>>, "")
    ELSE LET rk == read_key(file)
         IN  IF rk.raised # ""
             THEN Outcome(<<rk>>, <<>>, rk.out, <<>>, rk.raised)
             ELSE LET url == stock_url(function, s, i, Str(rk))
                  IN  IF FetchError(resp) # ""
                      THEN Outcome(<<rk>>, <<url>>, rk.out, <<>>, FetchError(resp))
                      ELSE LET df == get_pandas_df(resp.rows, n)
                           IN  Outcome(<<rk>>, <<url>>, rk.out \o <<Frame(df)>>,
                                       IF save
                                       THEN <<[name |-> stock_filename(today, function, s),
                                               rows |-> df]>>
                                       ELSE <<>>,
                                       "")

-----------------------------------------------------------------------------
(* crypto *)

\* the message of crypto's 'except invalidFunctionError' clause
crypto_error(function) ==
    Text("invalidFunctionError",
         <<"Error: Invalid function argument for 'avapi get':'", function, "'">>)

crypto_url_copied(function, s, key) ==
    IF function = "rating"
    THEN << Param("function", <<STOCK_FUNC_LIST["intraday"]>>), Param("symbol", <<s>>),
            Param("apikey", key) >>
    ELSE << Param("function", <<CRYPTO_FUNC_LIST[function]>>), Param("symbol", <<s>>),
            Param("market", <<"USD">>), Param("apikey", key),
            Param("datatype", <<"csv">>) >>

\* the URL crypto builds for a function of CRYPTO_FUNC_LIST
crypto_url(function, s, key) ==
    IF function = "rating"
    THEN << Param("function", <<"CRYPTO_RATING">>), Param("symbol", <<s>>),
            Param("apikey", key) >>
    ELSE << Param("function", <<CRYPTO_FUNC_LIST[function]>>), Param("symbol", <<s>>),
            Param("market", <<"USD">>), Param("apikey", key),
            Param("datatype", <<"csv">>) >>

\* filename = f"{date.today()}_{function}_{s}_.csv"
crypto_filename(today, function, s) ==
    <<today, "_", function, "_", s, "_", ".csv">>

\* the body of crypto(function, s, n, save)
crypto_run(function, s, n, save, today, resp, file) ==
    IF function \notin DOMAIN CRYPTO_FUNC_LIST
    THEN Outcome(<<>>, <<>>, <<crypto_error(function)>>, <<>>, "")
    ELSE LET rk == read_key(file)
         IN  IF rk.raised # ""
             THEN Outcome(<<rk>>, <<>>, rk.out, <<>>, rk.raised)
             ELSE LET url == crypto_url(function, s, Str(rk))
                  IN  IF FetchError(resp) # ""
                      THEN Outcome(<<rk>>, <<url>>, rk.out, <<>>, FetchError(resp))
                      ELSE LET df == IF function = "rating"
                                     THEN json_normalize(resp.rows)
                                     ELSE get_pandas_df(resp.rows, n)
                           IN  Outcome(<<rk>>, <<url>>, rk.out \o <<Frame(df)>>,
                                       IF save
                                       THEN <<[name |-> crypto_filename(today, function, s),
                                               rows |-> df]>>
                                       ELSE <<>>,
                                       "")

-----------------------------------------------------------------------------
(* exrate *)

\* the URL exrate builds
exrate_url(from_currency, to_currency, key) ==
    << Param("function", <<"CURRENCY_EXCHANGE_RATE">>),
       Param("from_currency", <<from_currency>>),
       Param("to_currency", <<to_currency>>),
       Param("apikey", key) >>

\* the body of exrate(from_currency, to_currency, save); the f-string of the
\* file name reads the names f and t, which nothing defines
exrate_run(from_currency, to_currency, save, today, resp, file) ==
    LET rk == read_key(file)
    IN  IF rk.raised # ""
        THEN Outcome(<<rk>>, <<>>, rk.out, <<>>, rk.raised)
        ELSE LET url == exrate_url(from_currency, to_currency, Str(rk))
             IN  IF FetchError(resp) # ""
                 THEN Outcome(<<rk>>, <<url>>, rk.out, <<>>, FetchError(resp))
                 ELSE Outcome(<<rk>>, <<url>>,
                              rk.out \o <<Frame(json_normalize(resp.rows))>>, <<>>,
                              IF save THEN "NameError" ELSE "")

-----------------------------------------------------------------------------
(* The state machine *)

NoArgs ==
    [cmd |-> "", function |-> "", s |-> "", i |-> "", n |-> 0, save |-> FALSE,
     today |-> "", from_currency |-> "", to_currency |-> "", k |-> <<>>,
     resp |-> [status |-> "", rows |-> <<>>]]

NoFile   == [exists |-> FALSE, text |-> <<>>]
EmptyObj == [exists |-> TRUE, text |-> <<"{", "}">>]

Init ==
    /\ phase = "idle"
    /\ keyFile \in {NoFile, EmptyObj}
    /\ lastSet = [set |-> FALSE, k |-> <<>>]
    /\ args = NoArgs
    /\ keyCalls = <<>>
    /\ fetched = <<>>
    /\ display = <<>>
    /\ written = <<>>
    /\ raised = ""
    /\ exit = 0

\* the process ends having done what outcome o says
Ends(o) ==
    /\ phase' = "exited"
    /\ keyCalls' = o.keyCalls
    /\ fetched' = o.fetched
    /\ display' = o.display
    /\ written' = o.written
    /\ raised' = o.raised
    /\ exit' = ExitStatus(o.raised)

\* python avapi.py setkey --k K
setkey ==
    /\ phase = "idle"
    /\ \E k \in Keys :
          /\ args' = [NoArgs EXCEPT !.cmd = "setkey", !.k = k]
          /\ keyFile' = [exists |-> TRUE, text |-> json_dump(k)]
          /\ lastSet' = [set |-> TRUE, k |-> k]
    /\ Ends(Outcome(<<>>, <<>>, <<>>, <<>>, ""))

\* python avapi.py stock FUNCTION -s S -i I -n N [--save]
stock ==
    /\ phase = "idle"
    /\ \E function \in Functions, s \in Symbols, i \in Intervals, n \in Limits,
          save \in BOOLEAN, today \in Dates, resp \in CsvResponses :
          /\ args' = [NoArgs EXCEPT !.cmd = "stock", !.function = function, !.s = s,
                                    !.i = i, !.n = n, !.save = save, !.today = today,
                                    !.resp = resp]
          /\ Ends(stock_run(function, s, i, n, save, today, resp, keyFile))
    /\ UNCHANGED <<keyFile, lastSet>>

\* python avapi.py crypto FUNCTION -s S -n N [--save]
crypto ==
    /\ phase = "idle"
    /\ \E function \in Functions, s \in Symbols, n \in Limits,
          save \in BOOLEAN, today \in Dates :
       \E resp \in (IF function = "rating" THEN JsonResponses ELSE CsvResponses) :
          /\ args' = [NoArgs EXCEPT !.cmd = "crypto", !.function = function, !.s = s,
                                    !.n = n, !.save = save, !.today = today,
                                    !.resp = resp]
          /\ Ends(crypto_run(function, s, n, save, today, resp, keyFile))
    /\ UNCHANGED <<keyFile, lastSet>>

\* python avapi.py exrate FROM TO [--save]
exrate ==
    /\ phase = "idle"
    /\ \E from_currency \in Symbols, to_currency \in Symbols,
          save \in BOOLEAN, today \in Dates, resp \in JsonResponses :
          /\ args' = [NoArgs EXCEPT !.cmd = "exrate", !.from_currency = from_currency,
                                    !.to_currency = to_currency, !.save = save,
                                    !.today = today, !.resp = resp]
          /\ Ends(exrate_run(from_currency, to_currency, save, today, resp, keyFile))
    /\ UNCHANGED <<keyFile, lastSet>>

\* the process is gone: only the credential file is left for the next one
Return ==
    /\ phase = "exited"
    /\ phase' = "idle"
    /\ args' = NoArgs
    /\ keyCalls' = <<>>
    /\ fetched' = <<>>
    /\ display' = <<>>
    /\ written' = <<>>
    /\ raised' = ""
    /\ exit' = 0
    /\ UNCHANGED <<keyFile, lastSet>>

Next ==
    \/ setkey
    \/ stock
    \/ crypto
    \/ exrate
    \/ Return

Spec == Init /\ [][Next]_vars

-----------------------------------------------------------------------------
(* Vocabulary of the properties *)

Exited == phase = "exited"

IsFrame(d) == d.kind = "frame"
\* the data frames the process displayed
Frames == SelectSeq(display, IsFrame)

\* the exceptions whose message the process printed
ErrorsShown == {display[k].error : k \in {j \in DOMAIN display : display[j].kind = "text"}}

\* the process printed a message of exception e that quotes value v
Echoes(e, v) ==
    \E k \in DOMAIN display :
        /\ display[k].kind = "text"
        /\ display[k].error = e
        /\ \E j \in DOMAIN display[k].text : display[k].text[j] = v

\* the values of the query parameters of url called name, in order
ParamValues(url, name) ==
    LET Named(p) == p.name = name
        ps == SelectSeq(url, Named)
    IN  [k \in DOMAIN ps |-> ps[k].value]

StockKinds  == {"intraday", "daily", "weekly", "monthly", "global"}
CryptoKinds == {"rating", "daily", "weekly", "monthly"}

\* the command line names a function of its command's table (exrate has none)
ValidFunction ==
    \/ args.cmd = "stock" /\ args.function \in StockKinds
    \/ args.cmd = "crypto" /\ args.function \in CryptoKinds
    \/ args.cmd = "exrate"

InvalidFunction ==
    \/ args.cmd = "stock" /\ args.function \notin StockKinds
    \/ args.cmd = "crypto" /\ args.function \notin CryptoKinds

\* the provider identifier the function tables give the command line
ProviderId ==
    IF args.cmd = "exrate" THEN "CURRENCY_EXCHANGE_RATE"
    ELSE IF args.cmd = "stock"
    THEN CASE args.function = "intraday" -> "TIME_SERIES_INTRADAY"
           [] args.function = "daily"    -> "TIME_SERIES_DAILY"
           [] args.function = "weekly"   -> "TIME_SERIES_WEEKLY"
           [] args.function = "monthly"  -> "TIME_SERIES_MONTHLY"
           [] args.function = "global"   -> "GLOBAL_QUOTE"
           [] OTHER                      -> "(none)"
    ELSE CASE args.function = "rating"   -> "CRYPTO_RATING"
           [] args.function = "daily"    -> "DIGITAL_CURRENCY_DAILY"
           [] args.function = "weekly"   -> "DIGITAL_CURRENCY_WEEKLY"
           [] args.function = "monthly"  -> "DIGITAL_CURRENCY_MONTHLY"
           [] OTHER                      -> "(none)"

\* no key is stored: the file is absent, holds no key field, or holds ""
NoCredential ==
    \/ ~keyFile.exists
    \/ keyFile = EmptyObj
    \/ lastSet.set /\ lastSet.k = <<>>

-----------------------------------------------------------------------------
(* C1 *)

\* C1: a stock or crypto run whose function is not in the command's table
\* prints the invalid-function message quoting the function, and does nothing
\* else: it reads no credential, fetches no URL, shows no data, writes no file.
C1_InvalidFunctionNoEffect ==
    (Exited /\ InvalidFunction) =>
        /\ Echoes("invalidFunctionError", args.function)
        /\ keyCalls = <<>>
        /\ fetched = <<>>
        /\ Frames = <<>>
        /\ written = <<>>

C1_Witness ==
    /\ Exited /\ args.cmd = "stock" /\ args.function = "rating"
    /\ args.save /\ args.n = 2 /\ args.i = "7min"
    /\ keyFile.exists /\ lastSet.k = <<"a">>
    /\ display # <<>>

-----------------------------------------------------------------------------
(* C2 *)

\* C2: every URL fetched names exactly one provider function, the one the
\* command's table maps the requested kind to.
C2_MappedFunctionId ==
    (Exited /\ fetched # <<>>) =>
        /\ ValidFunction
        /\ \A u \in DOMAIN fetched :
              ParamValues(fetched[u], "function") = << <<ProviderId>> >>

C2_Witness ==
    /\ Exited /\ args.cmd = "crypto" /\ args.function = "rating"
    /\ Len(fetched) = 1
    /\ ParamValues(fetched[1], "function") = << <<"CRYPTO_RATING">> >>

-----------------------------------------------------------------------------
(* C3 *)

\* C3: stock intraday reports invalidIntervalError exactly when the interval
\* is not in INTERVAL_LIST, and then fetches nothing; for the other kinds the
\* interval causes no error and is not in the URL.
C3_IntervalValidated ==
    (Exited /\ args.cmd = "stock" /\ args.function \in StockKinds) =>
        IF args.function = "intraday"
        THEN /\ ("invalidIntervalError" \in ErrorsShown) <=> (args.i \notin INTERVAL_LIST)
             /\ args.i \notin INTERVAL_LIST => fetched = <<>>
        ELSE /\ "invalidIntervalError" \notin ErrorsShown
             /\ \A u \in DOMAIN fetched : ParamValues(fetched[u], "interval") = <<>>

-----------------------------------------------------------------------------
(* C4 *)

\* C4: the URL of stock intraday carries interval=<the -i option>, the URL of
\* crypto daily/weekly/monthly carries the market parameter, and no other URL
\* carries either.
C4_UrlParameters ==
    (Exited /\ fetched # <<>>) =>
        \A u \in DOMAIN fetched :
            /\ ParamValues(fetched[u], "interval") =
                  (IF args.cmd = "stock" /\ args.function = "intraday"
                   THEN << <<args.i>> >> ELSE <<>>)
            /\ (ParamValues(fetched[u], "market") # <<>>) <=>
                  (args.cmd = "crypto" /\ args.function \in {"daily", "weekly", "monthly"})

-----------------------------------------------------------------------------
(* C5 *)

\* the frame shown and saved is d: shown once, and saved as shown
ShownAndSaved(d) ==
    /\ Len(Frames) = 1
    /\ Frames[1].rows = d
    /\ \A w \in DOMAIN written : written[w].rows = d

-----------------------------------------------------------------------------
(* C6 *)

\* C6: with no credential stored, a stock, crypto or exrate run reports the
\* missing credential and stops there: no fetch, no data shown, nothing saved.
C6_MissingCredentialTerminal ==
    (Exited /\ args.cmd \in {"stock", "crypto", "exrate"} /\ ValidFunction
            /\ NoCredential) =>
        /\ ErrorsShown \cap {"avapiJsonFileNotFoundError", "avapiJsonEmptyError"} # {}
        /\ fetched = <<>>
        /\ Frames = <<>>
        /\ written = <<>>

-----------------------------------------------------------------------------
(* C7 *)

\* C7: a stock, crypto or exrate run whose validation and fetch succeed
\* writes exactly one file with --save, after displaying, and ends normally;
\* without --save it writes none.
C7_SaveWritesOneFile ==
    (Exited /\ args.cmd \in {"stock", "crypto", "exrate"} /\ ValidFunction
            /\ args.resp.status = "ok"
            /\ \A c \in DOMAIN keyCalls : keyCalls[c].raised = "") =>
        IF args.save
        THEN Len(Frames) = 1 /\ Len(written) = 1 /\ raised = "" /\ exit = 0
        ELSE written = <<>>

-----------------------------------------------------------------------------
(* C8 *)

\* C8: the file a stock or crypto run writes is named D_F_S.csv: date,
\* function and symbol joined by single underscores, then the extension.
C8_ExportFileName ==
    (Exited /\ args.cmd \in {"stock", "crypto"}) =>
        \A w \in DOMAIN written :
            written[w].name = <<args.today, "_", args.function, "_", args.s, ".csv">>

-----------------------------------------------------------------------------
(* C9 *)

\* the run ended in an error: an exception escaped, or an error was reported
ErrorOutcome == raised # "" \/ ErrorsShown # {}

\* C9: a run that ends in an error exits non-zero, and only a run that
\* displayed its result exits zero.
C9_ErrorExitStatus ==
    (Exited /\ args.cmd \in {"stock", "crypto", "exrate"}) =>
        /\ ErrorOutcome => exit # 0
        /\ exit = 0 => Frames # <<>>

-----------------------------------------------------------------------------
(* C10 *)

\* what read_key gave a run that follows a setkey: the key last set, silently,
\* or None with the empty-credential message when that key is ""
ReadsLastSet ==
    (Exited /\ args.cmd \in {"stock", "crypto", "exrate"} /\ ValidFunction
            /\ lastSet.set) =>
        /\ Len(keyCalls) = 1
        /\ keyCalls[1].raised = ""
        /\ IF lastSet.k # <<>>
           THEN /\ ~keyCalls[1].none
                /\ keyCalls[1].val = lastSet.k
                /\ keyCalls[1].out = <<>>
           ELSE /\ keyCalls[1].none
                /\ "avapiJsonEmptyError" \in ErrorsShown

\* a stock, crypto or exrate run leaves the credential file as it found it
CredentialReadOnly ==
    (args'.cmd \in {"stock", "crypto", "exrate"}) => keyFile' = keyFile

\* C10: after any setkey runs, read_key hands a following stock, crypto or
\* exrate run the key of the most recent setkey (or reports the empty
\* credential when that key is ""), and those runs never change the file.
C10_CredentialRoundTrip == [] ReadsLastSet /\ [][CredentialReadOnly]_vars

C10_Witness ==
    /\ Exited /\ args.cmd = "exrate"
    /\ lastSet.set /\ lastSet.k = <<"\\", "\"">>
    /\ Len(keyCalls) = 1 /\ keyCalls[1].val = <<"\\", "\"">>
    /\ Len(fetched) = 1
    /\ ParamValues(fetched[1], "apikey") = << <<"\\", "\"">> >>

=============================================================================
